---- MODULE Spec2Model ----
(***************************************************************************)
(* A model of fgspectra/power.py: the tabulated power spectrum             *)
(* (PowerSpectrumFromFile) and the combiner of autospectra and             *)
(* correlations (PowerSpectraAndCorrelation).                              *)
(*                                                                         *)
(* Floating point numbers are modelled as exact rationals [n, d] in lowest *)
(* terms, extended with the IEEE specials: d = 0 is NaN (n = 0) or an      *)
(* infinity (n = 1, n = -1).  Arrays are records [shape, val]: shape is    *)
(* the tuple of dimensions and val maps every index tuple (0-based) to a   *)
(* number.                                                                 *)
(***************************************************************************)
EXTENDS Integers, Sequences, FiniteSets, TLC

\* ------------------------------------------------------------------ bounds
\* The largest number of sources a combiner is constructed with.
MaxSources == 6
\* The largest size of a leading (batched parameter) axis of a source result.
MaxDim == 3
\* The number of multipoles a source result holds in a combiner call.
NEll == 2
\* The largest multipole a tabulated file lists.
MaxEll == 2

\* ----------------------------------------------------------------- numbers
Abs(x) == IF x < 0 THEN -x ELSE x

RECURSIVE GCD(_, _)
GCD(a, b) == IF b = 0 THEN a ELSE GCD(b, a % b)

\* The rational n/d (d # 0) in lowest terms with a positive denominator.
Rat(n, d) ==
    LET s == IF d < 0 THEN -1 ELSE 1
        g == GCD(Abs(n), Abs(d))
    IN  [n |-> (s * n) \div g, d |-> (s * d) \div g]

Num(n) == [n |-> n, d |-> 1]
NaN == [n |-> 0, d |-> 0]
Inf(sign) == [n |-> sign, d |-> 0]
\* What np.empty leaves in a cell: memory nobody wrote.
Unset == [n |-> 0, d |-> -1]

IsNaN(x) == x.d = 0 /\ x.n = 0
IsFinite(x) == x.d > 0
Sign(x) == IF x.n > 0 THEN 1 ELSE IF x.n < 0 THEN -1 ELSE 0

\* IEEE multiplication.
NumMul(x, y) ==
    IF IsNaN(x) \/ IsNaN(y) THEN NaN
    ELSE IF IsFinite(x) /\ IsFinite(y) THEN Rat(x.n * y.n, x.d * y.d)
    ELSE IF Sign(x) * Sign(y) = 0 THEN NaN
    ELSE Inf(Sign(x) * Sign(y))

\* IEEE division: x/0 is an infinity, 0/0 and inf/inf are NaN.
NumDiv(x, y) ==
    IF IsNaN(x) \/ IsNaN(y) THEN NaN
    ELSE IF IsFinite(x) /\ IsFinite(y)
         THEN IF y.n # 0 THEN Rat(x.n * y.d, x.d * y.n)
              ELSE IF x.n = 0 THEN NaN
              ELSE Inf(Sign(x))
    ELSE IF IsFinite(x) THEN Num(0)
    ELSE IF IsFinite(y) THEN Inf(Sign(x) * (IF y.n < 0 THEN -1 ELSE 1))
    ELSE NaN

\* The exact root of a perfect square.
ISqrt(n) == CHOOSE r \in 0..n : r * r = n

\* np.sqrt: NaN for a negative number (the inputs of the model have
\* rational roots).
NumSqrt(x) ==
    IF IsNaN(x) THEN NaN
    ELSE IF ~IsFinite(x) THEN (IF x.n > 0 THEN x ELSE NaN)
    ELSE IF x.n < 0 THEN NaN
    ELSE Rat(ISqrt(x.n), ISqrt(x.d))

\* ------------------------------------------------------------------ arrays
Max(a, b) == IF a >= b THEN a ELSE b
Min(a, b) == IF a <= b THEN a ELSE b

\* Every index tuple of an array of shape sh.
RECURSIVE Indices(_)
Indices(sh) ==
    IF sh = <<>> THEN {<<>>}
    ELSE {<<h>> \o t : h \in 0..(Head(sh) - 1), t \in Indices(Tail(sh))}

\* The dimension of sh at position k of n axes, sh aligned to the right and
\* filled with 1 on the left (numpy's broadcasting rule).
DimAt(sh, k, n) ==
    LET off == n - Len(sh) IN IF k <= off THEN 1 ELSE sh[k - off]

Compatible(a, b) ==
    LET n == Max(Len(a), Len(b))
    IN  \A k \in 1..n :
            \/ DimAt(a, k, n) = DimAt(b, k, n)
            \/ DimAt(a, k, n) = 1
            \/ DimAt(b, k, n) = 1

BroadcastShape(a, b) ==
    LET n == Max(Len(a), Len(b))
    IN  [k \in 1..n |->
            IF DimAt(a, k, n) = 1 THEN DimAt(b, k, n) ELSE DimAt(a, k, n)]

\* Whether the shapes of a list of arrays broadcast together, and to what.
RECURSIVE AllCompatible(_)
AllCompatible(shapes) ==
    IF Len(shapes) <= 1 THEN TRUE
    ELSE /\ Compatible(shapes[1], shapes[2])
         /\ AllCompatible(<<BroadcastShape(shapes[1], shapes[2])>>
                          \o SubSeq(shapes, 3, Len(shapes)))

RECURSIVE BroadcastAll(_)
BroadcastAll(shapes) ==
    IF Len(shapes) = 0 THEN <<>>
    ELSE IF Len(shapes) = 1 THEN shapes[1]
    ELSE BroadcastAll(<<BroadcastShape(shapes[1], shapes[2])>>
                      \o SubSeq(shapes, 3, Len(shapes)))

\* The element of arr that lands on index idx of a broadcast of n >=
\* Len(arr.shape) axes: an axis of size 1 is read at 0.
BGet(arr, idx) ==
    LET m == Len(arr.shape)
        off == Len(idx) - m
    IN  arr.val[[k \in 1..m |-> IF arr.shape[k] = 1 THEN 0 ELSE idx[k + off]]]

\* Elementwise np.sqrt.
ArrSqrt(a) == [shape |-> a.shape, val |-> [x \in Indices(a.shape) |-> NumSqrt(a.val[x])]]

\* Elementwise product of two arrays whose shapes broadcast.
ArrMul(a, b) ==
    LET sh == BroadcastShape(a.shape, b.shape)
    IN  [shape |-> sh,
         val |-> [x \in Indices(sh) |-> NumMul(BGet(a, x), BGet(b, x))]]

\* Elementwise quotient of two arrays whose shapes broadcast.
ArrDiv(a, b) ==
    LET sh == BroadcastShape(a.shape, b.shape)
    IN  [shape |-> sh,
         val |-> [x \in Indices(sh) |-> NumDiv(BGet(a, x), BGet(b, x))]]

\* numpy's rule for target[...] = value: the value broadcasts to the target's
\* shape, and axes it has beyond the target's must be of size 1.
Assignable(vs, ts) ==
    LET extra == Len(vs) - Len(ts)
    IN  /\ \A k \in 1..extra : vs[k] = 1
        /\ \A k \in 1..Len(ts) :
               LET d == DimAt(vs, k, Len(ts)) IN d = ts[k] \/ d = 1

\* The element of value that target[...] = value stores at index t of the
\* target.
AssignGet(value, t) ==
    LET m == Len(value.shape)
        extra == m - Len(t)
    IN  value.val[[k \in 1..m |->
            IF k <= extra \/ value.shape[k] = 1 THEN 0 ELSE t[k - extra]]]

\* ------------------------------------------------------------------ state
VARIABLES
    \* PowerSpectraAndCorrelation
    pc,            \* where the combiner is: new, ctor_failed, idle, eval, diag,
                   \* offdiag, check, returned, raised
    n_sources,     \* len(self._power_spectra)
    n_comp,        \* self.n_comp
    n_args,        \* len(argss) of the call
    spectra,       \* the source results evaluated so far
    cls_shape,     \* np.broadcast(*cls).shape
    res,           \* the tensor being filled
    i_diag,        \* i of the diagonal loop
    k_off_diag,    \* k_off_diag of the off-diagonal loop
    el_off_diag,   \* el_off_diag of the off-diagonal loop
    i_corr,        \* i_corr
    ret,           \* what the call returned
    err,           \* the exception that ended the constructor or the call
    n_writes,      \* history: how often each cell (i, j) was assigned
    n_used,        \* history: how often each corrs[m] was read
    checked,       \* history: what the final assertion compared
    \* PowerSpectrumFromFile
    fpc,           \* where the tabulated source is: new, load, ready, done
    filenames,     \* the shape of np.array(filenames)
    files,         \* the files read so far, in np.ndenumerate order
    cl,            \* self._cl
    ell,           \* the ell of the call
    ell_0,         \* the ell_0 of the call
    out,           \* what the call returned
    ferr           \* the exception that ended the call

psVars == <<pc, n_sources, n_comp, n_args, spectra, cls_shape, res, i_diag,
            k_off_diag, el_off_diag, i_corr, ret, err, n_writes, n_used,
            checked>>
fileVars == <<fpc, filenames, files, cl, ell, ell_0, out, ferr>>
vars == <<psVars, fileVars>>

None == [shape |-> <<>>, val |-> <<>>]

\* ---------------------------------------------- inputs of a combiner call
\* What an autospectrum source returns: shape lead + (NEll,).  With root r >=
\* 0 the value is (r + the sum of the leading indices)^2, constant in ell,
\* as a power law of index 0 swept over a parameter; with r < 0 it is -1 at
\* even and 1 at odd multipoles.
SumSeq(s) == LET RECURSIVE Go(_)
                 Go(k) == IF k = 0 THEN 0 ELSE s[k] + Go(k - 1)
             IN  Go(Len(s))

AutoArr(lead, r) ==
    LET sh == lead \o <<NEll>>
    IN  [shape |-> sh,
         val |-> [x \in Indices(sh) |->
            IF r < 0 THEN (IF x[Len(x)] % 2 = 0 THEN Num(-1) ELSE Num(1))
            ELSE Num((r + SumSeq(SubSeq(x, 1, Len(x) - 1)))
                     * (r + SumSeq(SubSeq(x, 1, Len(x) - 1))))]]

\* What a correlation source returns: c/2 everywhere.
CorrArr(lead, c) ==
    LET sh == lead \o <<NEll>>
    IN  [shape |-> sh, val |-> [x \in Indices(sh) |-> Rat(c, 2)]]

LeadShapes == {<<>>, <<1, 2>>} \cup {<<a>> : a \in 1..MaxDim}

AutoResults ==
    {AutoArr(<<>>, r) : r \in {2, 3, -1}}
        \cup {AutoArr(lead, 2) : lead \in LeadShapes \ {<<>>}}

CorrResults ==
    {CorrArr(<<>>, c) : c \in {1, -1}} \cup {CorrArr(<<2>>, 1)}

\* ------------------------------------- PowerSpectraAndCorrelation.__init__
\* np.rint(np.sqrt(x)) for an integer x >= 1: the nearest integer to the
\* root (no integer x has a root halfway between two integers).
RintSqrt(x) ==
    CHOOSE q \in 1..x :
        (2 * q - 1) * (2 * q - 1) < 4 * x /\ 4 * x < (2 * q + 1) * (2 * q + 1)

\* np.rint(-1 + np.sqrt(1 + 8 * len(power_spectra))) // 2
NCompOf(S) == (RintSqrt(1 + 8 * S) - 1) \div 2

\* assert (self.n_comp + 1) * self.n_comp // 2 == len(power_spectra)
CtorAssertAlways(n, S) == TRUE
CtorAssert(n, S) == ((n + 1) * n) \div 2 = S

Construct(S) ==
    /\ pc = "new"
    /\ n_sources' = S
    /\ n_comp' = NCompOf(S)
    /\ IF CtorAssert(NCompOf(S), S)
       THEN pc' = "idle" /\ err' = "none"
       ELSE pc' = "ctor_failed" /\ err' = "AssertionError"
    /\ UNCHANGED <<n_args, spectra, cls_shape, res, i_diag, k_off_diag,
                   el_off_diag, i_corr, ret, n_writes, n_used, checked>>
    /\ UNCHANGED fileVars

\* ------------------------------------- PowerSpectraAndCorrelation.__call__
Raise(e) ==
    /\ pc' = "raised"
    /\ err' = e

\* The call begins: argss holds n argument tuples.
Call(n) ==
    /\ pc = "idle"
    /\ n_args' = n
    /\ spectra' = <<>>
    /\ pc' = "eval"
    /\ UNCHANGED <<n_sources, n_comp, cls_shape, res, i_diag, k_off_diag,
                   el_off_diag, i_corr, ret, err, n_writes, n_used, checked>>
    /\ UNCHANGED fileVars

\* zip(self._power_spectra, argss) stops at the shorter of the two.
NZip == Min(n_sources, n_args)

\* One ps(*args) of the list comprehension: the source returns an array, or
\* raises.
EvalSource ==
    /\ pc = "eval"
    /\ Len(spectra) < NZip
    /\ \/ /\ \E r \in (IF Len(spectra) < n_comp THEN AutoResults
                                                ELSE CorrResults) :
                spectra' = Append(spectra, r)
          /\ UNCHANGED <<pc, err>>
       \/ /\ Raise("SourceError")
          /\ UNCHANGED spectra
    /\ UNCHANGED <<n_sources, n_comp, n_args, cls_shape, res, i_diag,
                   k_off_diag, el_off_diag, i_corr, ret, n_writes, n_used,
                   checked>>
    /\ UNCHANGED fileVars

\* cls = spectra[:self.n_comp], corrs = spectra[self.n_comp:]
Cls == SubSeq(spectra, 1, Min(n_comp, Len(spectra)))
Corrs == SubSeq(spectra, n_comp + 1, Len(spectra))
\* sqrt_cls = [np.sqrt(cl) for cl in cls]
SqrtCls == [k \in 1..Len(Cls) |-> ArrSqrt(Cls[k])]

\* cls_shape[1:-1] + (self.n_comp, self.n_comp) + cls_shape[-1:]
ResShape(cs, n) ==
    (IF Len(cs) > 2 THEN SubSeq(cs, 2, Len(cs) - 1) ELSE <<>>)
        \o <<n, n>>
        \o (IF Len(cs) > 0 THEN <<cs[Len(cs)]>> ELSE <<>>)

\* np.empty(shape)
Empty(sh) == [shape |-> sh, val |-> [x \in Indices(sh) |-> Unset]]

Cells(n) == (0..(n - 1)) \X (0..(n - 1))

\* Lines 171-177: the broadcast shape of the autospectra, and the tensor.
\* np.broadcast of no array at all raises or gives the shape (), depending on
\* the numpy version.
Allocate ==
    /\ pc = "eval"
    /\ Len(spectra) = NZip
    /\ LET shapes == [k \in 1..Len(Cls) |-> Cls[k].shape]
       IN  \/ /\ AllCompatible(shapes)
              /\ cls_shape' = BroadcastAll(shapes)
              /\ res' = Empty(ResShape(BroadcastAll(shapes), n_comp))
              /\ pc' = "diag"
              /\ i_diag' = 0
              /\ n_writes' = [c \in Cells(n_comp) |-> 0]
              /\ n_used' = [m \in 0..(Len(Corrs) - 1) |-> 0]
              /\ UNCHANGED err
           \/ /\ ~AllCompatible(shapes) \/ Len(shapes) = 0
              /\ Raise("ValueError")
              /\ UNCHANGED <<cls_shape, res, i_diag, n_writes, n_used>>
    /\ UNCHANGED <<n_sources, n_comp, n_args, spectra, k_off_diag,
                   el_off_diag, i_corr, ret, checked>>
    /\ UNCHANGED fileVars

\* The shape of res[..., i, j, :].
SliceShape(r) ==
    LET n == Len(r.shape)
    IN  SubSeq(r.shape, 1, n - 3) \o <<r.shape[n]>>

\* An index of res[..., i, j, :] from an index of res.
SliceIndex(x) == SubSeq(x, 1, Len(x) - 3) \o <<x[Len(x)]>>

\* res[..., i, j, :] = value
SetCell(r, i, j, value) ==
    [r EXCEPT !.val =
        [x \in DOMAIN r.val |->
            IF x[Len(x) - 2] = i /\ x[Len(x) - 1] = j
            THEN AssignGet(value, SliceIndex(x))
            ELSE r.val[x]]]

\* res[..., i, j, :]
GetCell(r, i, j) ==
    LET sh == SliceShape(r)
    IN  [shape |-> sh,
         val |-> [t \in Indices(sh) |->
            r.val[SubSeq(t, 1, Len(t) - 1) \o <<i, j>> \o <<t[Len(t)]>>]]]

Written(w, i, j) == [w EXCEPT ![<<i, j>>] = @ + 1]

\* The value the diagonal loop stores in cell (i, i).
DiagValueSqrt(i) == SqrtCls[i + 1]
DiagValue(i) == Cls[i + 1]

\* Lines 179-180, one iteration: res[..., i, i, :] = cls[i].
DiagStep ==
    /\ pc = "diag"
    /\ i_diag < n_comp
    /\ IF i_diag >= Len(Cls) \/ Len(res.shape) < 3
       THEN Raise("IndexError") /\ UNCHANGED <<res, i_diag, n_writes>>
       ELSE IF ~Assignable(DiagValue(i_diag).shape, SliceShape(res))
       THEN Raise("ValueError") /\ UNCHANGED <<res, i_diag, n_writes>>
       ELSE /\ res' = SetCell(res, i_diag, i_diag, DiagValue(i_diag))
            /\ n_writes' = Written(n_writes, i_diag, i_diag)
            /\ i_diag' = i_diag + 1
            /\ UNCHANGED <<pc, err>>
    /\ UNCHANGED <<n_sources, n_comp, n_args, spectra, cls_shape, k_off_diag,
                   el_off_diag, i_corr, ret, n_used, checked>>
    /\ UNCHANGED fileVars

\* Line 182, and the entry of the off-diagonal loops.
DiagDone ==
    /\ pc = "diag"
    /\ i_diag = n_comp
    /\ i_corr' = 0
    /\ k_off_diag' = 1
    /\ el_off_diag' = 0
    /\ pc' = "offdiag"
    /\ UNCHANGED <<n_sources, n_comp, n_args, spectra, cls_shape, res, i_diag,
                   ret, err, n_writes, n_used, checked>>
    /\ UNCHANGED fileVars

\* i = el_off_diag, j = el_off_diag + k_off_diag
OffDiagI(k, el) == el
OffDiagJRowOfK(k, el) == k
OffDiagJ(k, el) == el + k

\* range(self.n_comp - k_off_diag)
InnerRangeShort(n, k) == n - k - 1
InnerRange(n, k) == n - k

\* sqrt_cls[i] * sqrt_cls[j] * corrs[i_corr], taken from the other end of corrs
OffDiagValueReversed(i, j, m) ==
    ArrMul(ArrMul(SqrtCls[i + 1], SqrtCls[j + 1]), Corrs[Len(Corrs) - m])

\* sqrt_cls[i] * sqrt_cls[j] * corrs[i_corr]
OffDiagValue(i, j, m) == ArrMul(ArrMul(SqrtCls[i + 1], SqrtCls[j + 1]), Corrs[m + 1])

\* Whether the two products of that expression broadcast.
OffDiagBroadcasts(i, j, m) ==
    /\ Compatible(SqrtCls[i + 1].shape, SqrtCls[j + 1].shape)
    /\ Compatible(BroadcastShape(SqrtCls[i + 1].shape, SqrtCls[j + 1].shape),
                  Corrs[m + 1].shape)

\* The cell res[..., j, i, :] = ... copies from.
CopySourceDiag(r, i, j) == GetCell(r, i, i)
CopySource(r, i, j) == GetCell(r, i, j)

\* Lines 183-189, one iteration of the inner loop, and the step of the two
\* loops to their next iteration (an outer iteration whose inner range is
\* empty goes on to the next one).
OffDiagStep ==
    /\ pc = "offdiag"
    /\ k_off_diag < n_comp
    /\ LET i == OffDiagI(k_off_diag, el_off_diag)
           j == OffDiagJ(k_off_diag, el_off_diag)
       IN  IF el_off_diag >= InnerRange(n_comp, k_off_diag)
           THEN /\ el_off_diag' = 0
                /\ k_off_diag' = k_off_diag + 1
                /\ UNCHANGED <<pc, err, res, i_corr, n_writes, n_used>>
           ELSE IF i_corr >= Len(Corrs)
           THEN Raise("IndexError")
                /\ UNCHANGED <<res, i_corr, k_off_diag, el_off_diag, n_writes, n_used>>
           ELSE IF \/ ~OffDiagBroadcasts(i, j, i_corr)
                   \/ ~Assignable(OffDiagValue(i, j, i_corr).shape, SliceShape(res))
           THEN Raise("ValueError")
                /\ UNCHANGED <<res, i_corr, k_off_diag, el_off_diag, n_writes, n_used>>
           ELSE LET r1 == SetCell(res, i, j, OffDiagValue(i, j, i_corr))
                IN  /\ res' = SetCell(r1, j, i, CopySource(r1, i, j))
                    /\ n_writes' = Written(Written(n_writes, i, j), j, i)
                    /\ n_used' = [n_used EXCEPT ![i_corr] = @ + 1]
                    /\ i_corr' = i_corr + 1
                    /\ IF el_off_diag + 1 < InnerRange(n_comp, k_off_diag)
                       THEN el_off_diag' = el_off_diag + 1 /\ UNCHANGED k_off_diag
                       ELSE el_off_diag' = 0 /\ k_off_diag' = k_off_diag + 1
                    /\ UNCHANGED <<pc, err>>
    /\ UNCHANGED <<n_sources, n_comp, n_args, spectra, cls_shape, i_diag, ret,
                   checked>>
    /\ UNCHANGED fileVars

\* Line 201: assert i_corr == len(corrs).
FinalAssert == i_corr = Len(Corrs)

Check ==
    /\ pc = "offdiag"
    /\ k_off_diag >= n_comp
    /\ checked' = {"i_corr == len(corrs)"}
    /\ IF FinalAssert
       THEN pc' = "check" /\ UNCHANGED err
       ELSE Raise("AssertionError")
    /\ UNCHANGED <<n_sources, n_comp, n_args, spectra, cls_shape, res, i_diag,
                   k_off_diag, el_off_diag, i_corr, ret, n_writes, n_used>>
    /\ UNCHANGED fileVars

\* Line 202: return res.
Return ==
    /\ pc = "check"
    /\ ret' = res
    /\ pc' = "returned"
    /\ UNCHANGED <<n_sources, n_comp, n_args, spectra, cls_shape, res, i_diag,
                   k_off_diag, el_off_diag, i_corr, err, n_writes, n_used,
                   checked>>
    /\ UNCHANGED fileVars

PsInit ==
    /\ pc = "new"
    /\ n_sources = 0
    /\ n_comp = 0
    /\ n_args = 0
    /\ spectra = <<>>
    /\ cls_shape = <<>>
    /\ res = None
    /\ i_diag = 0
    /\ k_off_diag = 0
    /\ el_off_diag = 0
    /\ i_corr = 0
    /\ ret = None
    /\ err = "none"
    /\ n_writes = <<>>
    /\ n_used = <<>>
    /\ checked = {}

FileIdle ==
    /\ fpc = "new"
    /\ filenames = <<>>
    /\ files = <<>>
    /\ cl = None
    /\ ell = <<>>
    /\ ell_0 = 0
    /\ out = None
    /\ ferr = "none"

Init == PsInit /\ FileIdle

Next ==
    \/ \E S \in 0..MaxSources : Construct(S)
    \/ \E n \in 0..MaxSources : Call(n)
    \/ EvalSource
    \/ Allocate
    \/ DiagStep
    \/ DiagDone
    \/ OffDiagStep
    \/ Check
    \/ Return

Spec == Init /\ [][Next]_vars

\* ======================================================= properties: combiner
\* The element of arr that belongs to index t of a slice res[..., i, j, :],
\* arr aligned to the right of t.
Aligned(arr, t) ==
    LET m == Len(arr.shape)
        d == m - Len(t)
    IN  arr.val[[k \in 1..m |->
            IF k - d < 1 \/ arr.shape[k] = 1 THEN 0 ELSE t[k - d]]]

\* The index of res for index t of the slice of cell (i, j).
CellIndex(t, i, j) == SubSeq(t, 1, Len(t) - 1) \o <<i, j, t[Len(t)]>>

SliceIndices(r) == Indices(SliceShape(r))

Comps == 0..(n_comp - 1)

\* C1: construction with S sources succeeds if and only if S = N(N+1)/2 for
\* an integer N >= 0, n_comp is then that N, and otherwise it ends with an
\* error and gives no combiner.
C1_ConstructIffTriangular ==
    pc # "new" =>
        /\ (pc # "ctor_failed") <=>
               (\E N \in 0..n_sources : N * (N + 1) = 2 * n_sources)
        /\ pc # "ctor_failed" =>
               /\ n_comp >= 0
               /\ n_comp * (n_comp + 1) = 2 * n_sources
        /\ pc = "ctor_failed" => err = "AssertionError"

C1_Witness == pc = "ctor_failed" /\ n_sources = 4

\* The rank of the pair (i, j), i < j, in diagonal-offset order: the pairs of
\* the offsets 1..(j-i-1) come first, then the i pairs of its own offset.
RECURSIVE PairsBefore(_, _)
PairsBefore(N, d) == IF d <= 0 THEN 0 ELSE (N - d) + PairsBefore(N, d - 1)
RankOf(N, i, j) == PairsBefore(N, j - i - 1) + i

\* C2: in a returned tensor every cell (i, j), i < j, holds
\* sqrt(autospectrum_i) * sqrt(autospectrum_j) * c_m, m the rank of (i, j) in
\* diagonal-offset order; with autospectra 4 and 9 and correlation 1/2 the
\* cell (0, 1) of a 2-component tensor is 3.
C2_OffDiagonalOrder ==
    pc = "returned" =>
        /\ \A i \in Comps, j \in Comps : i < j =>
              \A t \in SliceIndices(ret) :
                  ret.val[CellIndex(t, i, j)] =
                      NumMul(NumMul(NumSqrt(Aligned(spectra[i + 1], t)),
                                    NumSqrt(Aligned(spectra[j + 1], t))),
                             Aligned(spectra[n_comp + RankOf(n_comp, i, j) + 1], t))
        /\ (/\ n_comp = 2
            /\ spectra[1] = AutoArr(<<>>, 2)
            /\ spectra[2] = AutoArr(<<>>, 3)
            /\ spectra[3] = CorrArr(<<>>, 1)) =>
              \A l \in 0..(NEll - 1) : ret.val[<<0, 1, l>>] = Num(3)

C2_Witness ==
    /\ pc = "returned"
    /\ n_comp = 3
    /\ spectra[4] = CorrArr(<<>>, 1)
    /\ spectra[5] = CorrArr(<<>>, -1)
    /\ spectra[6] = CorrArr(<<>>, -1)
    /\ ret.shape = <<3, 3, NEll>>
    /\ ret.val[<<0, 1, 0>>] # ret.val[<<1, 2, 0>>]
    /\ ret.val[<<0, 2, 0>>] = ret.val[<<1, 2, 0>>]

\* C3: every returned tensor is symmetric in its two component axes: the
\* value at (j, i) is the value written at (i, j).
C3_Symmetric ==
    pc = "returned" =>
        \A i \in Comps, j \in Comps : i # j =>
            \A t \in SliceIndices(ret) :
                /\ ret.val[CellIndex(t, i, j)] = ret.val[CellIndex(t, j, i)]
                /\ ret.val[CellIndex(t, i, j)] # Unset

C3_Witness ==
    /\ pc = "returned"
    /\ n_comp = 3
    /\ ret.shape = <<3, 3, NEll>>
    /\ ret.val[<<0, 1, 0>>] = NaN
    /\ ret.val[<<1, 0, 0>>] = NaN
    /\ ret.val[<<1, 2, 0>>] = Rat(-9, 2)
    /\ ret.val[<<2, 1, 0>>] = Rat(-9, 2)

\* C4: from the end of the diagonal loop on, and in the returned tensor,
\* every diagonal cell (i, i) holds the i-th source result unchanged and has
\* been written once: the off-diagonal fill leaves it alone.
C4_DiagonalIsAutospectrum ==
    pc \in {"offdiag", "check", "returned"} =>
        \A i \in Comps :
            /\ n_writes[<<i, i>>] = 1
            /\ \A t \in SliceIndices(res) :
                   /\ res.val[CellIndex(t, i, i)] = Aligned(spectra[i + 1], t)
                   /\ pc = "returned" =>
                        ret.val[CellIndex(t, i, i)] = Aligned(spectra[i + 1], t)

C4_Witness ==
    /\ pc = "returned"
    /\ n_comp = 3
    /\ spectra[1] = AutoArr(<<>>, 2)
    /\ spectra[2] = AutoArr(<<1, 2>>, 2)
    /\ ret.shape = <<2, 3, 3, NEll>>
    /\ ret.val[<<1, 1, 1, 0>>] = Num(9)

\* The leading dimensions B of the broadcast shape B + (L,) of the
\* autospectra.
AutoShapes == [k \in 1..n_comp |-> spectra[k].shape]
BroadcastLead == LET b == BroadcastAll(AutoShapes) IN SubSeq(b, 1, Len(b) - 1)

\* A call that evaluated every source, whose autospectra broadcast together
\* and whose correlations have the shape (L,).
PlainCall ==
    /\ pc \in {"returned", "raised"}
    /\ n_comp >= 1
    /\ n_args >= n_sources
    /\ Len(spectra) = n_sources
    /\ AllCompatible(AutoShapes)
    /\ \A m \in (n_comp + 1)..n_sources : spectra[m].shape = <<NEll>>

\* C5: a call whose autospectra broadcast to B + (L,) returns a tensor of
\* shape B + (N, N, L), whatever B is.
C5_KeepsLeadingDims ==
    PlainCall =>
        /\ pc = "returned"
        /\ ret.shape = BroadcastLead \o <<n_comp, n_comp, NEll>>

\* C8: a call that returns has written every cell and was given an argument
\* tuple for every source; a call that fails returns nothing; a call given
\* fewer argument tuples than sources does not get to its end.
C8_NoPartialTensor ==
    /\ pc = "returned" =>
          /\ \A x \in DOMAIN ret.val : ret.val[x] # Unset
          /\ \A c \in Cells(n_comp) : n_writes[c] >= 1
          /\ n_args >= n_sources
          /\ Len(spectra) = n_sources
    /\ pc = "raised" => ret = None /\ err # "none"
    /\ n_args < n_sources => pc \notin {"check", "returned"}

C8_Witness ==
    /\ pc = "raised"
    /\ err = "IndexError"
    /\ n_comp = 3
    /\ n_args = 4
    /\ i_corr = 1
    /\ n_writes[<<0, 1>>] = 1
    /\ n_writes[<<1, 2>>] = 0

\* The accounting of the off-diagonal fill of a call given S argument tuples.
FillAccounting ==
    /\ i_corr = (n_comp * (n_comp - 1)) \div 2
    /\ i_corr = n_sources - n_comp
    /\ Len(Corrs) = n_sources - n_comp
    /\ \A m \in 0..(n_sources - n_comp - 1) : n_used[m] = 1
    /\ \A i \in Comps, j \in Comps : i # j => n_writes[<<i, j>>] = 1

\* C10 (as stated): the fill uses every correlation result once and writes
\* every off-diagonal cell once, the final assertion holds, and the call
\* checks both the consumption count and the cell coverage before it returns.
C10_ChecksCountAndCoverage ==
    (pc = "returned" /\ n_args = n_sources) =>
        /\ FillAccounting
        /\ {"i_corr == len(corrs)", "every off-diagonal cell written once"}
               \subseteq checked

\* C10 (amended): the fill uses every correlation result once and writes
\* every off-diagonal cell once, the final assertion holds whenever it is
\* reached, and the one thing the call checks before it returns is the
\* consumption count.
C10_FillExactlyOnce ==
    /\ (pc \in {"check", "returned"} /\ n_args = n_sources) =>
          /\ FillAccounting
          /\ checked = {"i_corr == len(corrs)"}
    /\ (pc = "offdiag" /\ k_off_diag >= n_comp) => FinalAssert
    /\ err # "AssertionError" \/ pc = "ctor_failed"

C10_Witness ==
    /\ pc = "returned"
    /\ n_comp = 3
    /\ n_args = n_sources
    /\ i_corr = 3
    /\ checked = {"i_corr == len(corrs)"}

\* ============================================== PowerSpectrumFromFile
\* ell_0=3000, the default of __call__.
DefaultEll0 == 3000

\* The shapes of np.array(filenames): one file, a list of one or two, a
\* nesting of two lists of one.
PathShapes == {<<>>, <<1>>, <<2>>, <<2, 1>>}

\* What np.genfromtxt(filename, unpack=True) gives: a file lists the
\* multipoles of a set, in any order, each with a value (10 * scale * (l + 1)
\* here).
FileOf(ells, scale) == [l \in ells |-> Num(10 * scale * (l + 1))]

Files ==
    {FileOf(ells, scale) : ells \in (SUBSET (0..MaxEll)) \ {{}}, scale \in {1, 2}}

SetMax(S) == CHOOSE m \in S : \A x \in S : x <= m

\* The number of leaves of a path structure.
RECURSIVE Product(_)
Product(sh) == IF sh = <<>> THEN 1 ELSE Head(sh) * Product(Tail(sh))

\* The position of leaf p in the order of np.ndenumerate (row-major).
RECURSIVE LeafRank(_, _)
LeafRank(sh, p) ==
    IF p = <<>> THEN 0
    ELSE LeafRank(SubSeq(sh, 1, Len(sh) - 1), SubSeq(p, 1, Len(p) - 1)) * sh[Len(sh)]
             + p[Len(p)]

LeafAt(sh, k) == CHOOSE p \in Indices(sh) : LeafRank(sh, p) = k

\* Lines 74-75: filenames = np.array(filenames);
\* self._cl = np.empty(filenames.shape + (0,)).
FileInit(P) ==
    /\ fpc = "new"
    /\ filenames' = P
    /\ cl' = Empty(P \o <<0>>)
    /\ files' = <<>>
    /\ fpc' = "load"
    /\ UNCHANGED <<ell, ell_0, out, ferr>>
    /\ UNCHANGED psVars

\* n_missing_ells = ell.max() + 1 - self._cl.shape[-1]
NMissingElls(f, c) == SetMax(DOMAIN f) + 1 - c.shape[Len(c.shape)]

\* np.pad(self._cl, pad_width, mode='constant', constant_values=0) with
\* pad_width (0, n) on the last axis and (0, 0) elsewhere.
PadFresh(c, n) ==
    LET sh == [c.shape EXCEPT ![Len(c.shape)] = @ + n]
    IN  [shape |-> sh, val |-> [x \in Indices(sh) |-> Num(0)]]
Pad(c, n) ==
    LET T == c.shape[Len(c.shape)]
        sh == [c.shape EXCEPT ![Len(c.shape)] = T + n]
    IN  [shape |-> sh,
         val |-> [x \in Indices(sh) |->
                    IF x[Len(x)] < T THEN c.val[x] ELSE Num(0)]]

\* self._cl[i + (ell,)] = spec
SetSpectrum(c, i, f) ==
    [c EXCEPT !.val =
        [x \in DOMAIN c.val |->
            IF SubSeq(x, 1, Len(x) - 1) = i /\ x[Len(x)] \in DOMAIN f
            THEN f[x[Len(x)]]
            ELSE c.val[x]]]

\* Lines 77-88, one iteration: read the next file, grow the table if the
\* file reaches beyond it, store the file's values.
LoadFile ==
    /\ fpc = "load"
    /\ Len(files) < Product(filenames)
    /\ \E f \in Files :
          LET i == LeafAt(filenames, Len(files))
              n_missing_ells == NMissingElls(f, cl)
              padded == IF n_missing_ells > 0 THEN Pad(cl, n_missing_ells) ELSE cl
          IN  /\ cl' = SetSpectrum(padded, i, f)
              /\ files' = Append(files, f)
    /\ UNCHANGED <<fpc, filenames, ell, ell_0, out, ferr>>
    /\ UNCHANGED psVars

\* The loop of __init__ is over: the object is built.
LoadDone ==
    /\ fpc = "load"
    /\ Len(files) = Product(filenames)
    /\ fpc' = "ready"
    /\ UNCHANGED <<filenames, files, cl, ell, ell_0, out, ferr>>
    /\ UNCHANGED psVars

\* The ell of a call: a scalar multipole, or an array of multipoles
\* (at holds them).
ScalarEll(l) == [scalar |-> TRUE, at |-> <<l>>]
ArrayEll(a, b) == [scalar |-> FALSE, at |-> [k \in 1..(b - a + 1) |-> a + k - 1]]

Ells ==
    {ScalarEll(l) : l \in 0..(MaxEll + 1)}
        \cup UNION {{ArrayEll(a, b) : b \in a..(MaxEll + 1)} : a \in 0..(MaxEll + 1)}

\* Whether self._cl[..., e] is within the table.
InTable(c, e) == \A k \in 1..Len(e.at) : e.at[k] < c.shape[Len(c.shape)]

\* self._cl[..., e]: the last axis is replaced by the shape of e.
Take(c, e) ==
    LET P == SubSeq(c.shape, 1, Len(c.shape) - 1)
        sh == IF e.scalar THEN P ELSE P \o <<Len(e.at)>>
    IN  [shape |-> sh,
         val |-> [x \in Indices(sh) |->
            IF e.scalar THEN c.val[x \o <<e.at[1]>>]
            ELSE c.val[SubSeq(x, 1, Len(x) - 1) \o <<e.at[x[Len(x)] + 1]>>]]]

\* self._cl[..., ell_0]
DenominatorAtZero(c, l0) == Take(c, ScalarEll(0))
Denominator(c, l0) == Take(c, ScalarEll(l0))

\* Line 93: return self._cl[..., ell] / self._cl[..., ell_0].
FileCall(e, l0) ==
    /\ fpc = "ready"
    /\ ell' = e
    /\ ell_0' = l0
    /\ fpc' = "done"
    /\ IF ~InTable(cl, e) \/ ~InTable(cl, ScalarEll(l0))
       THEN ferr' = "IndexError" /\ UNCHANGED out
       ELSE IF ~Compatible(Take(cl, e).shape, Denominator(cl, l0).shape)
       THEN ferr' = "ValueError" /\ UNCHANGED out
       ELSE out' = ArrDiv(Take(cl, e), Denominator(cl, l0)) /\ UNCHANGED ferr
    /\ UNCHANGED <<filenames, files, cl>>
    /\ UNCHANGED psVars

FileNext ==
    \/ \E P \in PathShapes : FileInit(P)
    \/ LoadFile
    \/ LoadDone
    \/ \E e \in Ells, l0 \in (0..(MaxEll + 1)) \cup {DefaultEll0} : FileCall(e, l0)

\* The tabulated source alone: the combiner stays unbuilt.
SpecFile == Init /\ [][FileNext]_vars

\* =============================================== properties: tabulated source
\* The leading shape P of the table, its leaves and its multipole length.
Leaves == Indices(filenames)
TableLen == cl.shape[Len(cl.shape)]

\* A call with an array ell and an ell_0 that are within the table.
ArrayCall ==
    /\ fpc = "done"
    /\ ~ell.scalar
    /\ InTable(cl, ell)
    /\ ell_0 < TableLen

\* C6: for a path structure of leading shape P and an array ell of n in-range
\* multipoles the call returns an array of shape P + (n,) whose entry at
\* leaf p and position m is table[p][ell[m]] / table[p][ell_0]; for one file
\* with 10, 20, 30 at 0, 1, 2 and ell_0 = 0 the result is 1, 2, 3.
C6_NormalisedPerLeaf ==
    ArrayCall =>
        /\ ferr = "none"
        /\ out.shape = filenames \o <<Len(ell.at)>>
        /\ \A p \in Leaves : \A m \in 1..Len(ell.at) :
               out.val[p \o <<m - 1>>] =
                   NumDiv(cl.val[p \o <<ell.at[m]>>], cl.val[p \o <<ell_0>>])
        /\ (/\ filenames = <<>>
            /\ files = <<FileOf({0, 1, 2}, 1)>>
            /\ ell = ArrayEll(0, 2)
            /\ ell_0 = 0) =>
               out.val = (<<0>> :> Num(1) @@ <<1>> :> Num(2) @@ <<2>> :> Num(3))

\* A call with the same scalar multipole, within the table, as ell and ell_0.
SelfCall ==
    /\ fpc = "done"
    /\ ell.scalar
    /\ ell.at[1] = ell_0
    /\ ell_0 < TableLen

\* C7 (as stated): evaluating at ell = l with ell_0 = l gives exactly 1, for
\* every multipole l of the table.
C7_SelfNormalisedIsOne ==
    SelfCall =>
        /\ ferr = "none"
        /\ \A p \in Leaves : out.val[p] = Num(1)

\* C7 (amended): evaluating at the scalar ell = l with ell_0 = l gives
\* exactly 1 at every leaf whose table value at l is not 0, and NaN at a leaf
\* whose value there is 0 (as for a multipole its file does not list).
C7_SelfNormalisedIsOneOrNaN ==
    SelfCall =>
        /\ ferr = "none"
        /\ out.shape = filenames
        /\ \A p \in Leaves :
               /\ cl.val[p \o <<ell_0>>] # Num(0) => out.val[p] = Num(1)
               /\ cl.val[p \o <<ell_0>>] = Num(0) => out.val[p] = NaN

C7_Witness ==
    /\ SelfCall
    /\ filenames = <<2>>
    /\ ell_0 = 1
    /\ out.val[<<0>>] = Num(1)
    /\ out.val[<<1>>] = NaN

\* The largest multipole the files read so far list.
MaxMultipole == SetMax(UNION {DOMAIN files[k] : k \in 1..Len(files)})

\* C9: once the files are read the table has the length max + 1, max the
\* largest multipole of all files, and table[p][l] is the value file p lists
\* for l, or 0 if it lists none; while they are read the same holds of the
\* files read so far, so padding keeps what earlier files stored.
C9_TableIsZeroFilledFiles ==
    (fpc \in {"load", "ready", "done"} /\ Len(files) > 0) =>
        /\ cl.shape = filenames \o <<MaxMultipole + 1>>
        /\ \A p \in Leaves : \A l \in 0..MaxMultipole :
               cl.val[p \o <<l>>] =
                   IF /\ LeafRank(filenames, p) < Len(files)
                      /\ l \in DOMAIN files[LeafRank(filenames, p) + 1]
                   THEN files[LeafRank(filenames, p) + 1][l]
                   ELSE Num(0)

C9_Witness ==
    /\ fpc = "ready"
    /\ filenames = <<2, 1>>
    /\ files = <<FileOf({1}, 1), FileOf({0, 2}, 2)>>
    /\ cl.val[<<0, 0, 1>>] = Num(20)
    /\ cl.val[<<0, 0, 2>>] = Num(0)
    /\ cl.val[<<1, 0, 2>>] = Num(60)

====
